---- MODULE Spec2Model ----
(***************************************************************************)
(* A model of cache-search.c: an inverted index (chained hash table of     *)
(* WordEntry, each owning a linked list of FileNode) built from three      *)
(* documents at start-up, and an interactive loop that answers word        *)
(* queries through a five-slot move-to-front cache whose slots point into  *)
(* the index.                                                              *)
(*                                                                         *)
(* C strings are sequences of character codes without the terminating NUL; *)
(* a pointer is the address of a heap cell (its position in the allocation *)
(* order), and NULL is 0.  Document names and printed lines are only ever  *)
(* compared or copied as a whole, so they are kept as TLA+ strings.        *)
(***************************************************************************)
EXTENDS Integers, Sequences, FiniteSets, TLC

VARIABLES
    pc,           \* where main is: "index_static_files", "index_file", "main", "exit"
    i,            \* index_static_files: the loop variable i
    f,            \* index_file: what the open FILE still has to deliver
    buf,          \* index_file: buf[0..len-1]
    hash_table,   \* bucket index -> WordEntry address; a bucket never written is NULL
    words,        \* the WordEntry cells malloc'ed so far, by address
    nodes,        \* the FileNode cells malloc'ed so far, by address
    cache_slots,  \* cache_slots[0..CACHE_CAP-1]
    cache_count,
    line,         \* main: the line buffer after the last iteration
    files,        \* main: what lookup_with_cache returned in the last iteration
    out,          \* what was printed since the last read from stdin
    exit_code,    \* main's return value once it returned, -1 before
    stdin_left,   \* how many more lines stdin can deliver before end-of-input
    oom_left,     \* how many more malloc calls the environment may fail
    disk,         \* environment: what texts/doc1.txt, doc2.txt, doc3.txt hold
    hash_size,    \* the size hash_table was built with (HASH_SIZE)
    thr,          \* lookups run by threads: where each one is (see the end)
    lock,         \* the lock around such a lookup, if one is used
    opened,       \* history: for each index_file call so far, whether fopen succeeded
    input,        \* history: what the last fgets delivered ("EOF" for NULL)
    ins_log,      \* history: the insert_word(word, filename) calls made so far
    recency,      \* history: the distinct words served so far, last served first
    since_evict   \* history: words served since they last left the cache

vars == <<pc, i, f, buf, hash_table, words, nodes, cache_slots, cache_count,
          line, files, out, exit_code, stdin_left, oom_left,
          disk, hash_size, thr, lock, opened,
          input, ins_log, recency, since_evict>>

index_vars == <<hash_table, words, nodes>>
cache_vars == <<cache_slots, cache_count>>
\* what no step of main writes
fixed_vars == <<disk, hash_size, thr, lock>>

NULL == 0

CACHE_CAP == 5
HASH_SIZE == 10007
BUF_SIZE == 256

(* ------------------------------ bounds -------------------------------- *)

\* stdin delivers at most this many lines before end-of-input
MaxLines == 7
\* under SpecOOM the environment fails at most this many malloc calls
MaxAllocFail == 1
\* under SpecOOM stdin delivers at most this many lines
MaxLinesOOM == 2
\* under SpecTok texts/doc1.txt holds at most this many characters
MaxTextLen == 4
\* under SpecTok and SpecSizes stdin delivers at most this many lines
MaxLinesShort == 1
\* under SpecConc each thread runs at most this many lookups
MaxLookups == 2

(* ------------------------- the environment ---------------------------- *)

\* what the three documents hold when fopen succeeds.
\* texts/doc1.txt, "a B a, c0": a word twice, an upper-case letter, two
\* separators in a row, and a pending word at end-of-file
TextA == <<97, 32, 66, 32, 97, 44, 32, 99, 48>>
\* texts/doc2.txt, "ar b d e\n": "ar" and "c0" hash to the same bucket
TextB == <<97, 114, 32, 98, 32, 100, 32, 101, 10>>
\* texts/doc3.txt, "b A": words the other two documents hold too
TextC == <<98, 32, 65>>
sample_texts == <<TextA, TextB, TextC>>

\* "Doc1 has: apple, Apple!"
ExampleText == <<68, 111, 99, 49, 32, 104, 97, 115, 58, 32,
                 97, 112, 112, 108, 101, 44, 32, 65, 112, 112, 108, 101, 33>>

\* under SpecTok texts/doc1.txt holds ExampleText or any text of up to
\* MaxTextLen characters out of "B", "1" and " "
TokChars == {66, 49, 32}
TokTexts == {ExampleText} \cup UNION {[1..n -> TokChars] : n \in 0..MaxTextLen}

\* what fgets can deliver: "A!" (normalizes to "a"), the other words of the
\* corpus ("b", "c0", "ar", "d", "e"), a word that is in no document ("z"),
\* "!!!" and "\r\n" (normalize to nothing), the empty line "\n", and a last
\* line "z" that end-of-input cuts short of its newline
Lines == { <<65, 33, 10>>, <<98, 10>>, <<99, 48, 10>>, <<97, 114, 10>>,
           <<100, 10>>, <<101, 10>>, <<122, 10>>,
           <<33, 33, 33, 10>>, <<13, 10>>, <<10>>, <<122>> }

(* ------------------------------ <ctype.h> ----------------------------- *)

isalnum(c) == c \in (48..57) \cup (65..90) \cup (97..122)

tolower(c) == IF c \in 65..90 THEN c + 32 ELSE c

(* ------------------------------ the index ----------------------------- *)

\* djb2.  h is an unsigned long: for a word of up to ten characters h stays
\* below 2^64 (5381 * 33^10 < 2^63), so it never wraps around, and h % size
\* is the same whether the remainder is taken at the end, as the code does,
\* or after every character, as here, where numbers have 32 bits.
RECURSIVE djb2(_, _, _)
djb2(h, s, size) ==
    IF s = <<>> THEN h % size
    ELSE djb2((((h * 32) + h) + Head(s)) % size, Tail(s), size)

hash_str(s) == djb2(5381, s, hash_size)

\* hash_table[idx] of the zero-initialized static array
Bucket(ht, idx) == IF idx \in DOMAIN ht THEN ht[idx] ELSE NULL

RECURSIVE filelist_contains(_, _, _)
filelist_contains(fn, head, filename) ==
    IF head = NULL THEN FALSE
    ELSE IF fn[head].name = filename THEN TRUE
    ELSE filelist_contains(fn, fn[head].next, filename)

\* the last node of a list that is not empty
RECURSIVE LastNode(_, _)
LastNode(fn, head) == IF fn[head].next = NULL THEN head ELSE LastNode(fn, fn[head].next)

\* add_file_to_list that links the new node after the last one
add_file_to_list_at_tail(M, e, filename, fail) ==
    IF e = NULL THEN M
    ELSE IF filelist_contains(M.fn, M.we[e].files, filename) THEN M
    ELSE IF fail = "node" THEN M
    ELSE IF fail = "name" THEN M
    ELSE LET node == Len(M.fn) + 1
             cell == [name |-> filename, next |-> NULL]
         IN  IF M.we[e].files = NULL
             THEN [M EXCEPT !.fn = Append(@, cell), !.we[e].files = node]
             ELSE [M EXCEPT !.fn = Append([@ EXCEPT ![LastNode(M.fn, M.we[e].files)].next = node],
                                          cell)]

\* add_file_to_list without its filelist_contains test
add_file_to_list_no_scan(M, e, filename, fail) ==
    IF e = NULL THEN M
    ELSE IF fail = "node" THEN M
    ELSE IF fail = "name" THEN M
    ELSE LET node == Len(M.fn) + 1
         IN  [M EXCEPT !.fn = Append(@, [name |-> filename, next |-> M.we[e].files]),
                       !.we[e].files = node]

\* the memory the index lives in: M.ht, M.we, M.fn are hash_table, words,
\* nodes.  fail names the malloc call that returns NULL if it is reached.
\* add_file_to_list that links the node although its name could not be
\* allocated
add_file_to_list_link_unnamed(M, e, filename, fail) ==
    IF e = NULL THEN M
    ELSE IF filelist_contains(M.fn, M.we[e].files, filename) THEN M
    ELSE IF fail = "node" THEN M
    ELSE LET node == Len(M.fn) + 1
             name == IF fail = "name" THEN "" ELSE filename
         IN  [M EXCEPT !.fn = Append(@, [name |-> name, next |-> M.we[e].files]),
                       !.we[e].files = node]

add_file_to_list(M, e, filename, fail) ==
    IF e = NULL THEN M
    ELSE IF filelist_contains(M.fn, M.we[e].files, filename) THEN M
    ELSE IF fail = "node" THEN M
    ELSE IF fail = "name" THEN M
    ELSE LET node == Len(M.fn) + 1
         IN  [M EXCEPT !.fn = Append(@, [name |-> filename, next |-> M.we[e].files]),
                       !.we[e].files = node]

\* the chain walk that looks at the head of the chain only
chain_find_head_only(we, p, word) ==
    IF p = NULL THEN NULL
    ELSE IF we[p].word = word THEN p
    ELSE NULL

\* the chain walk of find_word_entry and insert_word
RECURSIVE chain_find(_, _, _)
chain_find(we, p, word) ==
    IF p = NULL THEN NULL
    ELSE IF we[p].word = word THEN p
    ELSE chain_find(we, we[p].next, word)

find_word_entry(M, word) == chain_find(M.we, Bucket(M.ht, hash_str(word)), word)

\* insert_word that forgets the chain: e->next = NULL
insert_word_drop_chain(M, word, filename, fail) ==
    IF word = <<>> THEN M
    ELSE LET idx == hash_str(word)
             p   == chain_find(M.we, Bucket(M.ht, idx), word)
         IN  IF p # NULL THEN add_file_to_list(M, p, filename, fail)
             ELSE IF fail = "entry" THEN M
             ELSE IF fail = "word" THEN M
             ELSE LET e  == Len(M.we) + 1
                      M2 == [M EXCEPT
                               !.we = Append(@, [word |-> word, files |-> NULL,
                                                 next |-> NULL]),
                               !.ht = [b \in DOMAIN M.ht \cup {idx} |->
                                          IF b = idx THEN e ELSE M.ht[b]]]
                  IN  add_file_to_list(M2, e, filename, fail)

insert_word(M, word, filename, fail) ==
    IF word = <<>> THEN M
    ELSE LET idx == hash_str(word)
             p   == chain_find(M.we, Bucket(M.ht, idx), word)
         IN  IF p # NULL THEN add_file_to_list(M, p, filename, fail)
             ELSE IF fail = "entry" THEN M
             ELSE IF fail = "word" THEN M
             ELSE LET e  == Len(M.we) + 1
                      M2 == [M EXCEPT
                               !.we = Append(@, [word |-> word, files |-> NULL,
                                                 next |-> Bucket(M.ht, idx)]),
                               !.ht = [b \in DOMAIN M.ht \cup {idx} |->
                                          IF b = idx THEN e ELSE M.ht[b]]]
                  IN  add_file_to_list(M2, e, filename, fail)

Mem == [ht |-> hash_table, we |-> words, fn |-> nodes]

\* whether insert_word(word, filename) gets as far as the malloc call named
\* ("none": no call is made to fail)
MallocReached(M, word, filename, fail) ==
    LET p == find_word_entry(M, word)
    IN  IF fail = "none" THEN TRUE
        ELSE IF p = NULL THEN TRUE
        ELSE IF fail \in {"entry", "word"} THEN FALSE
        ELSE ~ filelist_contains(M.fn, M.we[p].files, filename)

\* the malloc calls the environment can fail in one insert_word call
MallocFailures == IF oom_left > 0 THEN {"none", "entry", "word", "node", "name"}
                  ELSE {"none"}

sample_basenames == <<"doc1.txt", "doc2.txt", "doc3.txt">>

NumFiles == Len(sample_basenames)

(* ------------------------------ the cache ----------------------------- *)

\* the cache as a value: C.slots is cache_slots, C.count is cache_count
Cache == [slots |-> cache_slots, count |-> cache_count]

EmptySlot == [word |-> NULL, files |-> NULL]

\* the loop of cache_index_of from slot k on; a slot's word points at the
\* word stored in a WordEntry, so the slot keeps that entry's address
RECURSIVE cache_scan(_, _, _, _)
cache_scan(C, we, word, k) ==
    IF k >= C.count THEN -1
    ELSE IF we[C.slots[k].word].word = word THEN k
    ELSE cache_scan(C, we, word, k + 1)

\* cache_index_of that returns 0 where it should return -1
cache_index_of_zero_on_miss(C, we, word) ==
    IF cache_scan(C, we, word, 0) < 0 THEN 0 ELSE cache_scan(C, we, word, 0)

\* cache_index_of with the loop bound one short: i < cache_count - 1
cache_index_of_one_short(C, we, word) ==
    cache_scan([C EXCEPT !.count = @ - 1], we, word, 0)

\* cache_index_of with the loop started at slot 1
cache_index_of_skip_front(C, we, word) == cache_scan(C, we, word, 1)

cache_index_of(C, we, word) == cache_scan(C, we, word, 0)

\* the hit slot exchanged with the front slot instead of shifted to the front
move_to_front_swap(slots, idx) ==
    [j \in DOMAIN slots |-> IF j = 0 THEN slots[idx]
                            ELSE IF j = idx THEN slots[0]
                            ELSE slots[j]]

\* CacheSlot hit = cache_slots[idx];
\* for (j = idx; j > 0; --j) cache_slots[j] = cache_slots[j - 1];
\* cache_slots[0] = hit;
move_to_front(slots, idx) ==
    [j \in DOMAIN slots |-> IF j = 0 THEN slots[idx]
                            ELSE IF j <= idx THEN slots[j - 1]
                            ELSE slots[j]]

\* cache_get that shifts the hit slot one place towards the front only
cache_get_one_step(C, we, word) ==
    LET idx == cache_index_of(C, we, word)
    IN  IF idx < 0 THEN [C |-> C, ret |-> NULL]
        ELSE LET moved == IF idx = 0 THEN C.slots
                          ELSE [C.slots EXCEPT ![idx - 1] = C.slots[idx],
                                               ![idx] = C.slots[idx - 1]]
             IN  [C |-> [C EXCEPT !.slots = moved], ret |-> C.slots[idx].files]

\* cache_get that writes the hit slot to the front without the shift
cache_get_no_shift(C, we, word) ==
    LET idx == cache_index_of(C, we, word)
    IN  IF idx < 0 THEN [C |-> C, ret |-> NULL]
        ELSE LET moved == [C.slots EXCEPT ![0] = C.slots[idx]]
             IN  [C |-> [C EXCEPT !.slots = moved], ret |-> moved[0].files]

\* the cache after the call, and the FileNode pointer returned
cache_get(C, we, word) ==
    LET idx == cache_index_of(C, we, word)
    IN  IF idx < 0 THEN [C |-> C, ret |-> NULL]
        ELSE LET moved == move_to_front(C.slots, idx)
             IN  [C |-> [C EXCEPT !.slots = moved], ret |-> moved[0].files]

\* cache_put that, when the cache is full, overwrites the front slot
\* without shifting: limit = 0 in place of CACHE_CAP - 1
cache_put_overwrite_front(C, we, word_ptr_in_table, fl) ==
    IF word_ptr_in_table = NULL \/ fl = NULL THEN C
    ELSE LET idx == cache_index_of(C, we, we[word_ptr_in_table].word)
         IN  IF idx >= 0
             THEN [C EXCEPT !.slots =
                       move_to_front([C.slots EXCEPT ![idx].files = fl], idx)]
             ELSE LET limit == IF C.count < CACHE_CAP THEN C.count ELSE 0
                  IN  [slots |-> [j \in DOMAIN C.slots |->
                                     IF j = 0 THEN [word  |-> word_ptr_in_table,
                                                    files |-> fl]
                                     ELSE IF j <= limit THEN C.slots[j - 1]
                                     ELSE C.slots[j]],
                       count |-> IF C.count < CACHE_CAP THEN C.count + 1
                                 ELSE C.count]

\* cache_put that, for a new word, writes cache_slots[0].word only
cache_put_keep_files(C, we, word_ptr_in_table, fl) ==
    IF word_ptr_in_table = NULL \/ fl = NULL THEN C
    ELSE LET idx == cache_index_of(C, we, we[word_ptr_in_table].word)
         IN  IF idx >= 0
             THEN [C EXCEPT !.slots =
                       move_to_front([C.slots EXCEPT ![idx].files = fl], idx)]
             ELSE LET limit == IF C.count < CACHE_CAP THEN C.count
                               ELSE CACHE_CAP - 1
                  IN  [slots |-> [j \in DOMAIN C.slots |->
                                     IF j = 0 THEN [word  |-> word_ptr_in_table,
                                                    files |-> C.slots[limit].files]
                                     ELSE IF j <= limit THEN C.slots[j - 1]
                                     ELSE C.slots[j]],
                       count |-> IF C.count < CACHE_CAP THEN C.count + 1
                                 ELSE C.count]

\* cache_put that moves a cached word's slot to the front with the files
\* pointer it had
cache_put_no_refresh(C, we, word_ptr_in_table, fl) ==
    IF word_ptr_in_table = NULL \/ fl = NULL THEN C
    ELSE LET idx == cache_index_of(C, we, we[word_ptr_in_table].word)
         IN  IF idx >= 0
             THEN [C EXCEPT !.slots = move_to_front(C.slots, idx)]
             ELSE LET limit == IF C.count < CACHE_CAP THEN C.count
                               ELSE CACHE_CAP - 1
                  IN  [slots |-> [j \in DOMAIN C.slots |->
                                     IF j = 0 THEN [word  |-> word_ptr_in_table,
                                                    files |-> fl]
                                     ELSE IF j <= limit THEN C.slots[j - 1]
                                     ELSE C.slots[j]],
                       count |-> IF C.count < CACHE_CAP THEN C.count + 1
                                 ELSE C.count]

cache_put(C, we, word_ptr_in_table, fl) ==
    IF word_ptr_in_table = NULL \/ fl = NULL THEN C
    ELSE LET idx == cache_index_of(C, we, we[word_ptr_in_table].word)
         IN  IF idx >= 0
             THEN [C EXCEPT !.slots =
                       move_to_front([C.slots EXCEPT ![idx].files = fl], idx)]
             ELSE LET limit == IF C.count < CACHE_CAP THEN C.count
                               ELSE CACHE_CAP - 1
                  IN  [slots |-> [j \in DOMAIN C.slots |->
                                     IF j = 0 THEN [word  |-> word_ptr_in_table,
                                                    files |-> fl]
                                     ELSE IF j <= limit THEN C.slots[j - 1]
                                     ELSE C.slots[j]],
                       count |-> IF C.count < CACHE_CAP THEN C.count + 1
                                 ELSE C.count]

\* the cache after the call, the pointer returned, and the lines printed
lookup_with_cache(C, M, word) ==
    LET g == cache_get(C, M.we, word)
    IN  IF g.ret # NULL
        THEN [C |-> g.C, ret |-> g.ret, out |-> << <<"from cache">> >>]
        ELSE LET e == find_word_entry(M, word)
             IN  IF e # NULL /\ M.we[e].files # NULL
                 THEN [C   |-> cache_put(g.C, M.we, e, M.we[e].files),
                       ret |-> M.we[e].files,
                       out |-> << <<"from hash table">> >>]
                 ELSE [C |-> g.C, ret |-> NULL, out |-> << >>]

\* cache_get after its call of cache_index_of, with the idx that call gave:
\* the move to the front and the pointer returned
cache_get_at(C, idx) ==
    LET moved == move_to_front(C.slots, idx)
    IN  [C |-> [C EXCEPT !.slots = moved], ret |-> moved[0].files]

\* cache_put after its call of cache_index_of, with the idx that call gave
cache_put_at(C, idx, word_ptr_in_table, fl) ==
    IF idx >= 0
    THEN [C EXCEPT !.slots =
              move_to_front([C.slots EXCEPT ![idx].files = fl], idx)]
    ELSE LET limit == IF C.count < CACHE_CAP THEN C.count ELSE CACHE_CAP - 1
         IN  [slots |-> [j \in DOMAIN C.slots |->
                            IF j = 0 THEN [word  |-> word_ptr_in_table,
                                           files |-> fl]
                            ELSE IF j <= limit THEN C.slots[j - 1]
                            ELSE C.slots[j]],
              count |-> IF C.count < CACHE_CAP THEN C.count + 1 ELSE C.count]

(* ---------------------------- the ui helpers -------------------------- *)

\* normalize_word_inplace that lower-cases but keeps every character
RECURSIVE normalize_word_inplace_keep_all(_)
normalize_word_inplace_keep_all(s) ==
    IF s = <<>> THEN <<>>
    ELSE <<tolower(Head(s))>> \o normalize_word_inplace_keep_all(Tail(s))

\* normalize_word_inplace with isalpha in place of isalnum
RECURSIVE normalize_word_inplace_letters(_)
normalize_word_inplace_letters(s) ==
    IF s = <<>> THEN <<>>
    ELSE IF isalnum(Head(s)) /\ ~ (Head(s) \in 48..57)
         THEN <<tolower(Head(s))>> \o normalize_word_inplace_letters(Tail(s))
         ELSE normalize_word_inplace_letters(Tail(s))

RECURSIVE normalize_word_inplace(_)
normalize_word_inplace(s) ==
    IF s = <<>> THEN <<>>
    ELSE IF isalnum(Head(s))
         THEN <<tolower(Head(s))>> \o normalize_word_inplace(Tail(s))
         ELSE normalize_word_inplace(Tail(s))

\* the names of a FileNode list, head first
RECURSIVE FileNames(_, _)
FileNames(fn, head) ==
    IF head = NULL THEN <<>>
    ELSE <<fn[head].name>> \o FileNames(fn, fn[head].next)

\* the one line print_files prints
print_files(fn, fl) ==
    IF FileNames(fn, fl) = <<>> THEN << <<"not found">> >>
    ELSE << <<"found in:">> \o FileNames(fn, fl) >>

\* the newline left in place
strip_newline_not(s) == s

\* if (n > 0 && (line[n-1] == '\n' || line[n-1] == '\r')) line[--n] = '\0';
strip_newline(s) ==
    IF Len(s) > 0 /\ s[Len(s)] \in {10, 13} THEN SubSeq(s, 1, Len(s) - 1) ELSE s

\* fgets returned NULL
EOF == <<-1>>

Prompt == <<"> ">>

(* ------------------------------- Init --------------------------------- *)

\* the threads of the last section; main itself is none of them
Threads == {1, 2}

IdleThread == [pc |-> "idle", word |-> <<>>, idx |-> -1, e |-> NULL, runs |-> 0]

\* the program as it is takes no lock
NoLock == [used |-> FALSE, holder |-> 0]

InitState ==
    /\ pc = "index_static_files"
    /\ i = 0
    /\ f = <<>>
    /\ buf = <<>>
    /\ hash_table = <<>>
    /\ words = <<>>
    /\ nodes = <<>>
    /\ cache_slots = [j \in 0..(CACHE_CAP - 1) |-> EmptySlot]
    /\ cache_count = 0
    /\ line = <<>>
    /\ files = NULL
    /\ out = <<>>
    /\ exit_code = -1
    /\ thr = [t \in Threads |-> IdleThread]
    /\ opened = <<>>
    /\ input = <<>>
    /\ ins_log = <<>>
    /\ recency = <<>>
    /\ since_evict = {}

InitCommon == InitState /\ hash_size = HASH_SIZE /\ lock = NoLock

\* the table sizes of SpecSizes
TableSizes == {1, 2, 3, 5, 7, HASH_SIZE}

\* lookups are run by two threads, with or without a lock around each
InitConc ==
    /\ InitState
    /\ hash_size = HASH_SIZE
    /\ lock \in {[used |-> u, holder |-> 0] : u \in BOOLEAN}
    /\ oom_left = 0
    /\ stdin_left = 0
    /\ disk = sample_texts

\* the program built with any of TableSizes as its HASH_SIZE
InitSizes ==
    /\ InitState
    /\ hash_size \in TableSizes
    /\ lock = NoLock
    /\ oom_left = 0
    /\ stdin_left = MaxLinesShort
    /\ disk = sample_texts

\* every malloc succeeds
Init == InitCommon /\ oom_left = 0 /\ stdin_left = MaxLines /\ disk = sample_texts

\* the environment may fail malloc calls
InitOOM ==
    /\ InitCommon
    /\ oom_left = MaxAllocFail
    /\ stdin_left = MaxLinesOOM
    /\ disk = sample_texts

\* texts/doc1.txt holds any of TokTexts, the other two documents are empty
InitTok ==
    /\ InitCommon
    /\ oom_left = 0
    /\ stdin_left = MaxLinesShort
    /\ disk \in {<<t, <<>>, <<>>>> : t \in TokTexts}

(* ----------------------------- the load ------------------------------- *)

\* insert_word(buf, displayname) as index_file calls it
CallInsert(word, filename) ==
    \E fail \in MallocFailures :
        LET M == insert_word(Mem, word, filename, fail)
        IN  /\ MallocReached(Mem, word, filename, fail)
            /\ hash_table' = M.ht
            /\ words' = M.we
            /\ nodes' = M.fn
            /\ oom_left' = IF fail = "none" THEN oom_left ELSE oom_left - 1
            /\ ins_log' = Append(ins_log, <<word, filename>>)

serve_vars == <<cache_slots, cache_count, line, files, out, exit_code,
                stdin_left, input, recency, since_evict>>

\* index_static_files that returns at the first fopen that fails
index_file_open_give_up ==
    /\ pc = "index_static_files"
    /\ i < NumFiles
    /\ \/ /\ i' = NumFiles
          /\ opened' = Append(opened, FALSE)
          /\ UNCHANGED <<pc, f, buf>>
       \/ /\ pc' = "index_file"
          /\ f' = disk[i + 1]
          /\ buf' = <<>>
          /\ opened' = Append(opened, TRUE)
          /\ UNCHANGED i
    /\ UNCHANGED <<index_vars, oom_left, ins_log, serve_vars, fixed_vars>>

\* index_static_files calls index_file for document i; fopen fails, or
\* opens the document
index_file_open ==
    /\ pc = "index_static_files"
    /\ i < NumFiles
    /\ \/ /\ i' = i + 1
          /\ opened' = Append(opened, FALSE)
          /\ UNCHANGED <<pc, f, buf>>
       \/ /\ pc' = "index_file"
          /\ f' = disk[i + 1]
          /\ buf' = <<>>
          /\ opened' = Append(opened, TRUE)
          /\ UNCHANGED i
    /\ UNCHANGED <<index_vars, oom_left, ins_log, serve_vars, fixed_vars>>

\* one round of the fgetc loop
index_file_char ==
    /\ pc = "index_file"
    /\ f # <<>>
    /\ f' = Tail(f)
    /\ LET ch == Head(f)
       IN  IF isalnum(ch)
           THEN /\ buf' = IF Len(buf) < BUF_SIZE - 1
                          THEN Append(buf, tolower(ch)) ELSE buf
                /\ UNCHANGED <<index_vars, oom_left, ins_log>>
           ELSE IF Len(buf) > 0
                THEN /\ CallInsert(buf, sample_basenames[i + 1])
                     /\ buf' = <<>>
                ELSE UNCHANGED <<buf, index_vars, oom_left, ins_log>>
    /\ UNCHANGED <<pc, i, serve_vars, fixed_vars, opened>>

\* index_file that forgets the word pending at end-of-file
index_file_eof_no_flush ==
    /\ pc = "index_file"
    /\ f = <<>>
    /\ UNCHANGED <<index_vars, oom_left, ins_log>>
    /\ buf' = <<>>
    /\ pc' = "index_static_files"
    /\ i' = i + 1
    /\ UNCHANGED <<f, serve_vars, fixed_vars, opened>>

\* fgetc returns EOF: the pending word is inserted, the file closed, and
\* index_static_files goes on with the next document
index_file_eof ==
    /\ pc = "index_file"
    /\ f = <<>>
    /\ IF Len(buf) > 0
       THEN CallInsert(buf, sample_basenames[i + 1])
       ELSE UNCHANGED <<index_vars, oom_left, ins_log>>
    /\ buf' = <<>>
    /\ pc' = "index_static_files"
    /\ i' = i + 1
    /\ UNCHANGED <<f, serve_vars, fixed_vars, opened>>

\* main that enters its loop once the first document is done
main_start_early ==
    /\ pc = "index_static_files"
    /\ i >= 1
    /\ pc' = "main"
    /\ out' = << <<"indexed files from ./texts (doc1.txt, doc2.txt, doc3.txt)">>,
                 <<"type a word to search (empty line to quit)">>, Prompt >>
    /\ UNCHANGED <<i, f, buf, index_vars, cache_vars, line, files, exit_code,
                   stdin_left, oom_left, input, ins_log, recency, since_evict,
                   fixed_vars, opened>>

\* index_static_files returns; main prints its two lines and the first
\* prompt, and waits in fgets
main_start ==
    /\ pc = "index_static_files"
    /\ i = NumFiles
    /\ pc' = "main"
    /\ out' = << <<"indexed files from ./texts (doc1.txt, doc2.txt, doc3.txt)">>,
                 <<"type a word to search (empty line to quit)">>, Prompt >>
    /\ UNCHANGED <<i, f, buf, index_vars, cache_vars, line, files, exit_code,
                   stdin_left, oom_left, input, ins_log, recency, since_evict,
                   fixed_vars, opened>>

(* ----------------------------- the loop ------------------------------- *)

\* the words the occupied slots point at
CacheWords(C, we) == {we[C.slots[k].word].word : k \in 0..(C.count - 1)}

\* s without its entries equal to w
Without(s, w) == SelectSeq(s, LAMBDA x : x # w)

load_vars == <<pc, i, f, buf>>

\* fgets returns NULL: break; return 0
main_eof ==
    /\ pc = "main"
    /\ input' = EOF
    /\ pc' = "exit"
    /\ exit_code' = 0
    /\ out' = <<>>
    /\ files' = NULL
    /\ UNCHANGED <<i, f, buf, index_vars, cache_vars, line, stdin_left,
                   oom_left, ins_log, recency, since_evict, fixed_vars, opened>>

\* fgets returns a line: one iteration of the loop, up to the next fgets or
\* to the return
main_line ==
    /\ pc = "main"
    /\ stdin_left > 0
    /\ \E r \in Lines :
         LET n0 == strip_newline(r)
             w  == normalize_word_inplace(n0)
             L  == lookup_with_cache(Cache, Mem, w)
         IN  /\ input' = r
             \* a line without its newline is the last one
             /\ stdin_left' = IF r[Len(r)] = 10 THEN stdin_left - 1 ELSE 0
             /\ IF n0 = <<>>
                THEN /\ line' = <<>>
                     /\ pc' = "exit"
                     /\ exit_code' = 0
                     /\ out' = <<>>
                     /\ files' = NULL
                     /\ UNCHANGED <<cache_vars, recency, since_evict>>
                ELSE IF w = <<>>
                THEN /\ line' = <<>>
                     /\ out' = << <<"pls type letters/numbers">>, Prompt >>
                     /\ files' = NULL
                     /\ UNCHANGED <<pc, exit_code, cache_vars, recency, since_evict>>
                ELSE /\ line' = w
                     /\ cache_slots' = L.C.slots
                     /\ cache_count' = L.C.count
                     /\ files' = L.ret
                     /\ out' = L.out
                               \o (IF L.ret # NULL THEN print_files(nodes, L.ret)
                                   ELSE << <<"not found">> >>)
                               \o <<Prompt>>
                     /\ recency' = IF L.ret # NULL THEN <<w>> \o Without(recency, w)
                                   ELSE recency
                     /\ since_evict' =
                           ((IF L.ret # NULL THEN since_evict \cup {w} ELSE since_evict)
                            \ (CacheWords(Cache, words) \ CacheWords(L.C, words)))
                     /\ UNCHANGED <<pc, exit_code>>
    /\ UNCHANGED <<i, f, buf, index_vars, oom_left, ins_log, fixed_vars, opened>>

Next ==
    \/ index_file_open
    \/ index_file_char
    \/ index_file_eof
    \/ main_start
    \/ main_eof
    \/ main_line

Spec == Init /\ [][Next]_vars

\* the program keeps running, and a call of fgets returns: with a line
\* while stdin has one, with NULL at its end
SpecLive == Init /\ [][Next]_vars /\ WF_vars(Next)

SpecOOM == InitOOM /\ [][Next]_vars

SpecTok == InitTok /\ [][Next]_vars

SpecSizes == InitSizes /\ [][Next]_vars

(* ------------------------ lookups run by threads ---------------------- *)

\* the words the threads look up: "a", "b", and "z", which no document holds
ConcWords == {<<97>>, <<98>>, <<122>>}

\* what a thread's step leaves alone besides the cache, thr and lock
conc_frame == <<pc, i, f, buf, index_vars, line, files, out, exit_code,
                stdin_left, oom_left, disk, hash_size, opened, input, ins_log,
                recency, since_evict>>

\* thread t is at label l of its lookup
At(t, l) == pc = "main" /\ thr[t].pc = l

\* lookup_with_cache returns in thread t, which gives up the lock if it
\* holds one
Return(t) ==
    /\ thr' = [thr EXCEPT ![t] = [IdleThread EXCEPT !.runs = thr[t].runs + 1]]
    /\ lock' = [lock EXCEPT !.holder = 0]

\* a thread calls lookup_with_cache(word); where a lock is used it takes it
\* first
thr_lookup_with_cache ==
    /\ \E t \in Threads, word \in ConcWords :
         /\ At(t, "idle")
         /\ thr[t].runs < MaxLookups
         /\ lock.used => lock.holder = 0
         /\ lock' = IF lock.used THEN [lock EXCEPT !.holder = t] ELSE lock
         /\ thr' = [thr EXCEPT ![t] = [@ EXCEPT !.pc = "cache_get",
                                                !.word = word]]
    /\ UNCHANGED <<cache_vars, conc_frame>>

\* cache_get: int idx = cache_index_of(word); if (idx < 0) return NULL;
thr_cache_get ==
    /\ \E t \in Threads :
         /\ At(t, "cache_get")
         /\ LET idx == cache_index_of(Cache, words, thr[t].word)
            IN  thr' = [thr EXCEPT ![t] =
                           [@ EXCEPT !.idx = idx,
                                     !.pc = IF idx < 0 THEN "find_word_entry"
                                            ELSE "cache_get_move"]]
    /\ UNCHANGED <<cache_vars, lock, conc_frame>>

\* cache_get: the move to the front with the idx found before, and
\* lookup_with_cache's return of the files pointer if it is not NULL
thr_cache_get_move ==
    /\ \E t \in Threads :
         /\ At(t, "cache_get_move")
         /\ LET g == cache_get_at(Cache, thr[t].idx)
            IN  /\ cache_slots' = g.C.slots
                /\ cache_count' = g.C.count
                /\ IF g.ret # NULL
                   THEN Return(t)
                   ELSE /\ thr' = [thr EXCEPT ![t].pc = "find_word_entry"]
                        /\ UNCHANGED lock
    /\ UNCHANGED conc_frame

\* lookup_with_cache: WordEntry *e = find_word_entry(word); if (e && e->files)
thr_find_word_entry ==
    /\ \E t \in Threads :
         /\ At(t, "find_word_entry")
         /\ LET e == find_word_entry(Mem, thr[t].word)
            IN  IF e # NULL
                THEN IF words[e].files # NULL
                     THEN /\ thr' = [thr EXCEPT ![t] = [@ EXCEPT !.e = e,
                                                                !.pc = "cache_put"]]
                          /\ UNCHANGED lock
                     ELSE Return(t)
                ELSE Return(t)
    /\ UNCHANGED <<cache_vars, conc_frame>>

\* cache_put: int idx = cache_index_of(word_ptr_in_table);
thr_cache_put ==
    /\ \E t \in Threads :
         /\ At(t, "cache_put")
         /\ thr' = [thr EXCEPT ![t] =
                       [@ EXCEPT !.idx = cache_index_of(Cache, words,
                                                        words[thr[t].e].word),
                                 !.pc = "cache_put_store"]]
    /\ UNCHANGED <<cache_vars, lock, conc_frame>>

\* cache_put: the refresh or the insert with the idx found before, and
\* lookup_with_cache's return
thr_cache_put_store ==
    /\ \E t \in Threads :
         /\ At(t, "cache_put_store")
         /\ LET C == cache_put_at(Cache, thr[t].idx, thr[t].e,
                                  words[thr[t].e].files)
            IN  /\ cache_slots' = C.slots
                /\ cache_count' = C.count
         /\ Return(t)
    /\ UNCHANGED conc_frame

NextConc ==
    \/ index_file_open
    \/ index_file_char
    \/ index_file_eof
    \/ main_start
    \/ thr_lookup_with_cache
    \/ thr_cache_get
    \/ thr_cache_get_move
    \/ thr_find_word_entry
    \/ thr_cache_put
    \/ thr_cache_put_store

\* the load as the program runs it, then lookups by two threads in place of
\* main's loop
SpecConc == InitConc /\ [][NextConc]_vars

(* ====================== what the claims talk about ==================== *)

\* what find(word) returns: the entry's file list, head first; NULL is
\* not-found
Find(M, word) == find_word_entry(M, word)

FindFiles(M, word) ==
    IF Find(M, word) = NULL THEN <<>>
    ELSE FileNames(M.fn, M.we[Find(M, word)].files)

\* the index after the step
MemNext == [ht |-> hash_table', we |-> words', fn |-> nodes']

CacheNext == [slots |-> cache_slots', count |-> cache_count']

\* how often x occurs in s
Count(s, x) == Cardinality({k \in 1..Len(s) : s[k] = x})

Range(s) == {s[k] : k \in 1..Len(s)}

\* the words in the occupied slots, front to back
CacheSeq(C, we) == [k \in 1..C.count |-> we[C.slots[k - 1].word].word]

\* the words that have an entry in the index
IndexWords(M) == {M.we[e].word : e \in 1..Len(M.we)}

\* the provenance line of what was printed, if any
Provenance(o) ==
    IF o # <<>> /\ o[1] = <<"from cache">> THEN "cache"
    ELSE IF o # <<>> /\ o[1] = <<"from hash table">> THEN "index"
    ELSE "none"

\* this step is an iteration of the loop that called lookup_with_cache(line')
LookupStep == pc = "main" /\ pc' = "main" /\ line' # <<>>

\* this step called insert_word(word, filename)
InsertStep(word, filename) == ins_log' = Append(ins_log, <<word, filename>>)

(* -------------------------------- C1 ---------------------------------- *)

C1_ExactlyOnce ==
    \A k \in 1..Len(ins_log) :
        Count(FindFiles(Mem, ins_log[k][1]), ins_log[k][2]) = 1

C1_RepeatIsNoOp ==
    \A k \in 1..Len(ins_log) :
        InsertStep(ins_log[k][1], ins_log[k][2]) => UNCHANGED index_vars

\* C1: once insert_word(w, d) has been called, however often and whatever
\* other inserts came in between, find(w) holds d exactly once; and a
\* repeated insert_word(w, d) leaves hash_table, the entries and the file
\* lists as they were.
C1_IdempotentInsert == [] C1_ExactlyOnce /\ [][C1_RepeatIsNoOp]_vars

\* insert_word(w, d) was called twice with another insert in between, and
\* find(w) holds d
C1_Witness ==
    \E p, q, r \in 1..Len(ins_log) :
        /\ p < q /\ q < r
        /\ ins_log[p] = ins_log[r]
        /\ ins_log[q] # ins_log[p]
        /\ Count(FindFiles(Mem, ins_log[p][1]), ins_log[p][2]) = 1

(* -------------------------------- C2 ---------------------------------- *)

C2_AtMostCap == cache_count \in 0..CACHE_CAP

\* a put of an absent word into the full cache drops the back slot and
\* nothing else
C2_EvictsBack ==
    (/\ LookupStep
     /\ cache_count = CACHE_CAP
     /\ line' \notin CacheWords(Cache, words)
     /\ files' # NULL)
    => /\ cache_count' = CACHE_CAP
       /\ CacheSeq(CacheNext, words')
            = <<line'>> \o SubSeq(CacheSeq(Cache, words), 1, CACHE_CAP - 1)
       /\ CacheWords(Cache, words) \ CacheWords(CacheNext, words')
            = {CacheSeq(Cache, words)[CACHE_CAP]}

\* of CACHE_CAP + 1 (or more) distinct words served, those served longest
\* ago are not cached
C2_OldestNotCached ==
    \A k \in (CACHE_CAP + 1)..Len(recency) :
        recency[k] \notin CacheWords(Cache, words)

\* and a further lookup of one of them is served from the index
C2_OldestFromIndex ==
    \A k \in (CACHE_CAP + 1)..Len(recency) :
        (LookupStep /\ line' = recency[k]) => Provenance(out') = "index"

\* C2: the cache never holds more than CACHE_CAP slots; a put of an absent
\* word into the full cache evicts exactly the back slot; once CACHE_CAP + 1
\* distinct words of the index were looked up, the one looked up longest ago
\* is not cached, and looking it up again is served from the index.
C2_CapacityAndEviction ==
    /\ [] (C2_AtMostCap /\ C2_OldestNotCached)
    /\ [][C2_EvictsBack /\ C2_OldestFromIndex]_vars

\* seven lines were read, six distinct words were served, and the last
\* line, served from the index, put its word into the full cache
C2_Witness ==
    /\ pc = "main"
    /\ stdin_left = MaxLines - (CACHE_CAP + 2)
    /\ Len(recency) = CACHE_CAP + 1
    /\ cache_count = CACHE_CAP
    /\ Provenance(out) = "index"
    /\ recency[CACHE_CAP + 1] \notin CacheWords(Cache, words)

(* -------------------------------- C3 ---------------------------------- *)

C3_Step ==
    (LookupStep /\ files' # NULL)
    => /\ Provenance(out') \in {"cache", "index"}
       /\ Provenance(out') = "cache" <=> line' \in since_evict
       /\ line' \notin Range(recency) => Provenance(out') = "index"

\* C3: a lookup of w that returns a result is reported as served from the
\* cache exactly when w was looked up (with a result) since it last left the
\* cache, or since the index was built; the first lookup of w is reported as
\* served from the index.
C3_Provenance == [][C3_Step]_vars

\* a word is served from the cache while another word, served before, has
\* left the cache
C3_Witness ==
    /\ pc = "main"
    /\ Provenance(out) = "cache"
    /\ Len(recency) = CACHE_CAP + 1
    /\ recency[CACHE_CAP + 1] \notin since_evict

(* -------------------------------- C4 ---------------------------------- *)

\* the reference: the first CACHE_CAP words of the recency list
LruReference ==
    SubSeq(recency, 1, IF Len(recency) < CACHE_CAP THEN Len(recency) ELSE CACHE_CAP)

\* C4: no word is in two slots, and the slots front to back are the (up to
\* CACHE_CAP) distinct words served most recently, last served first.
C4_LruRefinement ==
    /\ Cardinality(CacheWords(Cache, words)) = cache_count
    /\ CacheSeq(Cache, words) = LruReference

\* the cache is full, a word was evicted, and a hit has just reordered it
C4_Witness ==
    /\ pc = "main"
    /\ cache_count = CACHE_CAP
    /\ Len(recency) = CACHE_CAP + 1
    /\ Provenance(out) = "cache"
    /\ stdin_left = 0

(* -------------------------------- C5 ---------------------------------- *)

\* cache_get(w) twice in a row, from the cache as it is now
C5_TwoGets ==
    \A w \in CacheWords(Cache, words) :
        LET g1 == cache_get(Cache, words, w)
            g2 == cache_get(g1.C, words, w)
        IN  /\ g1.ret # NULL
            /\ g2.ret = g1.ret
            /\ words[g1.C.slots[0].word].word = w
            /\ words[g2.C.slots[0].word].word = w
            /\ g2.C = g1.C

\* the same as the loop does it: w was served from the cache, and the next
\* line asks for w again
C5_TwoHits ==
    (LookupStep /\ Provenance(out) = "cache" /\ line' = line)
    => /\ Provenance(out') = "cache"
       /\ files' = files
       /\ words[cache_slots[0].word].word = line
       /\ UNCHANGED cache_vars
       /\ words'[cache_slots'[0].word].word = line

\* C5: two cache_get(w) calls in a row for a cached w return the same
\* pointer, w is in slot 0 after each, and the second leaves the slots and
\* the count as the first left them.
C5_RepeatedHitStable == [] C5_TwoGets /\ [][C5_TwoHits]_vars

\* a hit has just moved a word to the front of a cache of three or more
C5_Witness ==
    /\ pc = "main"
    /\ Provenance(out) = "cache"
    /\ cache_count >= 3
    /\ words[cache_slots[0].word].word = line

(* -------------------------------- C6 ---------------------------------- *)

\* no two entries hold the same word, and every entry is in its chain
C6_OneEntryPerWord ==
    /\ \A d, e \in 1..Len(words) : words[d].word = words[e].word => d = e
    /\ \A e \in 1..Len(words) : Find(Mem, words[e].word) = e

\* what find returns for a word never loses the word or a document
C6_AppendOnly ==
    \/ UNCHANGED index_vars
    \/ \A w \in IndexWords(Mem) :
          /\ Find(MemNext, w) = Find(Mem, w)
          /\ Range(FindFiles(Mem, w)) \subseteq Range(FindFiles(MemNext, w))

\* C6: the index holds at most one entry per word, an entry is never
\* removed, and a document in a word's list is never removed from it.
C6_IndexAppendOnly == [] C6_OneEntryPerWord /\ [][C6_AppendOnly]_vars

\* all three documents are indexed, two entries share a bucket, and
\* queries have been served
C6_Witness ==
    /\ pc = "main"
    /\ cache_count >= 2
    /\ \E e \in 1..Len(words) : words[e].next # NULL
    /\ \E w \in IndexWords(Mem) : Len(FindFiles(Mem, w)) = NumFiles

(* -------------------------------- C7 ---------------------------------- *)

\* the documents of w in the order in which insert_word(w, d) first saw them
RECURSIVE FirstInserted(_, _)
FirstInserted(w, log) ==
    IF log = <<>> THEN <<>>
    ELSE LET rest == FirstInserted(w, SubSeq(log, 1, Len(log) - 1))
             last == log[Len(log)]
         IN  IF last[1] = w /\ last[2] \notin Range(rest)
             THEN Append(rest, last[2]) ELSE rest

Reverse(s) == [k \in 1..Len(s) |-> s[Len(s) + 1 - k]]

\* C7 as claimed: the list find(w) or lookup(w) returns has the documents
\* in the order in which they were first inserted for w, earliest first.
C7_EarliestFirst ==
    /\ \A w \in IndexWords(Mem) : FindFiles(Mem, w) = FirstInserted(w, ins_log)
    /\ (pc = "main" /\ files # NULL)
       => FileNames(nodes, files) = FirstInserted(line, ins_log)

\* C7, amended: the list find(w) or lookup(w) returns has the documents in
\* the reverse of the order in which they were first inserted for w: the one
\* inserted last comes first.
C7_LatestFirst ==
    /\ \A w \in IndexWords(Mem) :
           FindFiles(Mem, w) = Reverse(FirstInserted(w, ins_log))
    /\ (pc = "main" /\ files # NULL)
       => /\ FileNames(nodes, files) = Reverse(FirstInserted(line, ins_log))
          /\ out[2] = <<"found in:">> \o Reverse(FirstInserted(line, ins_log))

\* a lookup returned a word that all three documents hold
C7_Witness ==
    /\ pc = "main"
    /\ files # NULL
    /\ FileNames(nodes, files) = <<"doc3.txt", "doc2.txt", "doc1.txt">>

(* -------------------------------- C8 ---------------------------------- *)

C8_MissChangesNothing ==
    (/\ LookupStep
     /\ line' \notin CacheWords(Cache, words)
     /\ line' \notin IndexWords(Mem))
    => /\ files' = NULL
       /\ out' = << <<"not found">>, Prompt >>
       /\ UNCHANGED cache_vars
       /\ UNCHANGED index_vars

C8_LoopLeavesIndex == pc = "main" => UNCHANGED index_vars

\* C8: a lookup of a word that is in neither the cache nor the index returns
\* NULL, prints "not found" and no provenance line, and leaves the cache and
\* the index as they were; no iteration of the loop changes the index.
C8_MissFrame == [][C8_MissChangesNothing /\ C8_LoopLeavesIndex]_vars

\* "z" was looked up with three words cached, and was not found
C8_Witness ==
    /\ pc = "main"
    /\ line = <<122>>
    /\ files = NULL
    /\ out = << <<"not found">>, Prompt >>
    /\ cache_count >= 3

(* -------------------------------- C9 ---------------------------------- *)

\* a line without its terminator
LineBody(r) ==
    IF r # <<>> /\ r[Len(r)] \in {10, 13} THEN SubSeq(r, 1, Len(r) - 1) ELSE r

NoAlnum(r) == \A k \in 1..Len(r) : ~ isalnum(r[k])

C9_Step ==
    (/\ pc = "main"
     /\ input' # EOF
     /\ LineBody(input') # <<>>
     /\ NoAlnum(LineBody(input')))
    => /\ out' = << <<"pls type letters/numbers">>, Prompt >>
       /\ files' = NULL
       /\ pc' = "main"
       /\ UNCHANGED cache_vars
       /\ UNCHANGED index_vars

\* C9: a line that is not empty but has no letter or digit gets the "pls
\* type letters/numbers" line and no "not found", no lookup is made, the
\* cache and the index stay as they were, and the next prompt is printed.
C9_InvalidQuery == [][C9_Step]_vars

\* "!!!" was answered with words cached
C9_Witness ==
    /\ pc = "main"
    /\ input = <<33, 33, 33, 10>>
    /\ out = << <<"pls type letters/numbers">>, Prompt >>
    /\ cache_count >= 2

(* -------------------------------- C10 --------------------------------- *)

\* fgets returned NULL, or a line that is nothing but its terminator
EmptyOrEof(r) == r = EOF \/ LineBody(r) = <<>>

C10_Step ==
    pc = "main"
    => /\ pc' = "exit" <=> EmptyOrEof(input')
       /\ pc' = "exit" => exit_code' = 0
       /\ pc' # "exit" => /\ pc' = "main"
                          /\ exit_code' = -1
                          /\ out'[Len(out')] = Prompt

\* main has not returned before the loop is reached
C10_NoEarlyExit == pc # "exit" => exit_code = -1

\* C10: the loop ends, with exit code 0, exactly when fgets returns NULL or
\* an empty line; after any other line the next prompt is printed; and as
\* stdin delivers finitely many lines, main returns in the end.
C10_Termination ==
    /\ [] C10_NoEarlyExit
    /\ [][C10_Step]_vars
    /\ <>(pc = "exit" /\ exit_code = 0)

\* main returned on an empty line, after at least three other lines, with
\* a word cached
C10_Witness ==
    /\ pc = "exit"
    /\ exit_code = 0
    /\ input = <<10>>
    /\ cache_count >= 1
    /\ stdin_left <= MaxLines - 4

(* ------------------------ the tokens of a text ------------------------ *)

\* where a maximal run of letters and digits starts in s
RunStarts(s) ==
    {p \in 1..Len(s) : isalnum(s[p]) /\ (p = 1 \/ ~ isalnum(s[p - 1]))}

\* where the run that starts at p ends
RunEnd(s, p) ==
    CHOOSE q \in p..Len(s) :
        /\ \A k \in p..q : isalnum(s[k])
        /\ q = Len(s) \/ ~ isalnum(s[q + 1])

\* the k-th smallest element of a set of numbers
Kth(S, k) == CHOOSE p \in S : Cardinality({q \in S : q < p}) = k - 1

LowerCase(s) == [k \in 1..Len(s) |-> IF s[k] \in 65..90 THEN s[k] + 32 ELSE s[k]]

\* the maximal runs of letters and digits of s, lower-cased, in order
RefTokens(s) ==
    [k \in 1..Cardinality(RunStarts(s)) |->
        LowerCase(SubSeq(s, Kth(RunStarts(s), k), RunEnd(s, Kth(RunStarts(s), k))))]

\* the words insert_word was called with for document name d, in order
TokensOf(d) ==
    LET mine == SelectSeq(ins_log, LAMBDA c : c[2] = d)
    IN  [k \in 1..Len(mine) |-> mine[k][1]]

\* the index is complete: index_static_files has returned
Loaded == pc \in {"main", "exit"}

(* -------------------------------- C11 --------------------------------- *)

\* the documents that were opened and hold w, last indexed first
ExpectedFiles(w) ==
    LET has == SelectSeq([j \in 1..NumFiles |-> j],
                         LAMBDA j : opened[j] /\ w \in Range(RefTokens(disk[j])))
    IN  [k \in 1..Len(has) |-> sample_basenames[has[Len(has) + 1 - k]]]

\* the words of the documents that were opened
ExpectedWords ==
    UNION {Range(RefTokens(disk[j])) : j \in {k \in 1..NumFiles : opened[k]}}

\* index_static_files is about to return, or has returned
IndexingDone == (pc = "index_static_files" /\ i = NumFiles) \/ Loaded

\* what the index holds as index_static_files returns
C11_SkippedIsAbsent ==
    (pc = "index_static_files" /\ i = NumFiles) =>
        /\ Len(opened) = NumFiles
        /\ \A j \in 1..NumFiles : \A n \in 1..Len(nodes) :
               ~ opened[j] => nodes[n].name # sample_basenames[j]
        /\ IndexWords(Mem) = ExpectedWords
        /\ \A w \in ExpectedWords : FindFiles(Mem, w) = ExpectedFiles(w)

C11_AllProcessed == IndexingDone => Len(opened) = NumFiles

\* and it holds that from then on
C11_StaysSo == IndexingDone => UNCHANGED <<index_vars, opened, disk>>

C11_FailedOpenStep ==
    opened' = Append(opened, FALSE)
    => /\ UNCHANGED index_vars
       /\ i' = i + 1
       /\ pc' = "index_static_files"

\* C11: a document whose fopen fails is skipped: its name is in no file
\* list, the index is what the documents that were opened give, and main
\* goes on to the loop that serves queries.
C11_SkipUnreadable ==
    /\ [] (C11_SkippedIsAbsent /\ C11_AllProcessed)
    /\ [][C11_FailedOpenStep /\ C11_StaysSo]_vars
    /\ <>(pc = "main")

\* doc2.txt could not be opened, and a word of doc1.txt and doc3.txt was
\* served
C11_Witness ==
    /\ pc = "main"
    /\ opened = <<TRUE, FALSE, TRUE>>
    /\ files # NULL
    /\ FileNames(nodes, files) = <<"doc3.txt", "doc1.txt">>

(* -------------------------------- C12 --------------------------------- *)

\* index_file has returned for document j (1, 2, 3)
Indexed(j) == i >= j /\ Len(opened) >= j /\ opened[j]

C12_NoEmptyToken == \A k \in 1..Len(ins_log) : ins_log[k][1] # <<>>

C12_MaximalRuns ==
    \A j \in 1..NumFiles :
        Indexed(j) => TokensOf(sample_basenames[j]) = RefTokens(disk[j])

C12_Example ==
    (Indexed(1) /\ disk[1] = ExampleText)
    => TokensOf("doc1.txt") = << <<100, 111, 99, 49>>, <<104, 97, 115>>,
                                 <<97, 112, 112, 108, 101>>,
                                 <<97, 112, 112, 108, 101>> >>

SlotCoherent(k) ==
    LET s == cache_slots[k]
    IN  /\ s.word \in 1..Len(words)
        /\ Find(Mem, words[s.word].word) = s.word
        /\ s.files # NULL
        /\ s.files = words[s.word].files
        /\ FileNames(nodes, s.files) = FindFiles(Mem, words[s.word].word)
        /\ FileNames(nodes, s.files) # <<>>

C13_SlotsCoherent == Loaded => \A k \in 0..(cache_count - 1) : SlotCoherent(k)

\* a query served from the cache gets the list find_word_entry leads to
C13_ServedFromCache ==
    (LookupStep /\ Len(out') > 0 /\ out'[1] = <<"from cache">>)
    => LET e == find_word_entry(Mem, line')
       IN  e # NULL /\ files' = words[e].files /\ files' # NULL

\* C13: while queries are served every occupied cache slot names a word
\* that has a WordEntry, holds a non-empty file list, and that list is the
\* very list find_word_entry gives for the word.
C13_CacheCoherent == [] C13_SlotsCoherent /\ [][C13_ServedFromCache]_vars

\* a full cache, just after a query was answered from it
C13_Witness ==
    /\ pc = "main"
    /\ cache_count = CACHE_CAP
    /\ Len(out) > 0
    /\ out[1] = <<"from cache">>
    /\ \A k \in 0..(cache_count - 1) : SlotCoherent(k)

(* -------------------------------- C14 --------------------------------- *)

\* a step of the load: insert_word is called, or the index changes
LoadStep == ins_log' # ins_log \/ index_vars' # index_vars

\* a step of the service: fgets returns, or the cache changes
ServeStep == input' # input \/ line' # line \/ cache_vars' # cache_vars

\* no line was read and nothing was looked up so far
NoQueryYet == input = <<>> /\ line = <<>> /\ cache_count = 0 /\ files = NULL

\* every insert comes before the first query
C14_InsertsFirst == LoadStep => (~ Loaded /\ NoQueryYet /\ ~ ServeStep)

\* no query before every document was processed
C14_QueriesLast ==
    ServeStep => /\ pc = "main"
                 /\ i = NumFiles
                 /\ Len(opened) = NumFiles
                 /\ f = <<>> /\ buf = <<>>
                 /\ ~ LoadStep

\* from the first prompt on the index stays as it is
C14_Frozen == Loaded => UNCHANGED <<index_vars, ins_log, i, opened>>

\* C14: the run has two phases with a hard boundary: every insert_word
\* call happens before the first query, no query is read before all three
\* documents were processed, and the index never changes once queries are
\* served.
C14_LoadThenServe == [][C14_InsertsFirst /\ C14_QueriesLast /\ C14_Frozen]_vars

\* the third query is being answered from an index of seven inserts
C14_Witness ==
    /\ pc = "main"
    /\ stdin_left = MaxLines - 3
    /\ Len(ins_log) > 6
    /\ files # NULL

(* -------------------------------- C15 --------------------------------- *)

\* a call of insert_word in which a malloc returns NULL
FailedInsert == oom_left' < oom_left

\* the entries whose file list is empty
EmptyEntries == {e \in 1..Len(words) : words[e].files = NULL}

C15_FailedInsertUndone == FailedInsert => UNCHANGED index_vars

C15_NoEmptyEntry == EmptyEntries = {}

\* C15 as stated: the insert in which an allocation fails leaves the index
\* as it was, and no WordEntry ever has an empty file list.
C15_AbortRestores == [][C15_FailedInsertUndone]_vars /\ [] C15_NoEmptyEntry

\* the insert in which an allocation fails changes no file list and no
\* entry that exists, and adds at most the entry of a new word, left with
\* an empty list when the FileNode or its name could not be allocated
C15_FailedInsertStep ==
    FailedInsert =>
        /\ nodes' = nodes
        /\ \A e \in 1..Len(words) : words'[e] = words[e]
        /\ \A w \in IndexWords(Mem) :
               /\ Find(MemNext, w) = Find(Mem, w)
               /\ FindFiles(MemNext, w) = FindFiles(Mem, w)
        /\ \/ UNCHANGED index_vars
           \/ /\ Len(words') = Len(words) + 1
              /\ words'[Len(words')].files = NULL
              /\ words'[Len(words')].word \notin IndexWords(Mem)
              /\ words'[Len(words')].word = ins_log'[Len(ins_log')][1]

\* an entry with an empty list is never cached, and its word is reported
\* as not found
C15_EmptyIsNotFound ==
    \A e \in EmptyEntries :
        /\ \A k \in 0..(cache_count - 1) : cache_slots[k].word # e
        /\ lookup_with_cache(Cache, Mem, words[e].word).ret = NULL
        /\ lookup_with_cache(Cache, Mem, words[e].word).C = Cache

\* C15 (amended): the insert in which an allocation fails changes no file
\* list and removes nothing; it leaves the index as it was unless the word
\* is new and the failure is that of the FileNode or of its name, and then
\* the new WordEntry stays in the table with an empty list, which a lookup
\* reports as not found and never caches.
C15_AbortKeepsLists == [][C15_FailedInsertStep]_vars /\ [] C15_EmptyIsNotFound

\* a word whose entry was left with an empty list was queried
C15_Witness ==
    /\ pc = "main"
    /\ line # <<>>
    /\ Find(Mem, line) \in EmptyEntries
    /\ files = NULL
    /\ out = << <<"not found">>, Prompt >>

(* -------------------------------- C16 --------------------------------- *)

\* the words a query can ask for: those of the index, and "z", which no
\* document holds
QueryWords == IndexWords(Mem) \cup {<<122>>}

\* the occupied slots of a cache, as a set
Occupied(C) == {C.slots[k] : k \in 0..(C.count - 1)}

\* cache_get(w) on the cache as it is: a miss gives the same cache and NULL
GetMissFrame(w) ==
    LET g == cache_get(Cache, words, w)
    IN  w \notin CacheWords(Cache, words) => (g.C = Cache /\ g.ret = NULL)

\* a hit gives the same slots, w's first and the others in the order they
\* had
GetHitFrame(w) ==
    LET g == cache_get(Cache, words, w)
    IN  w \in CacheWords(Cache, words) =>
            /\ g.C.count = cache_count
            /\ Occupied(g.C) = Occupied(Cache)
            /\ CacheWords(g.C, words) = CacheWords(Cache, words)
            /\ \A k \in cache_count..(CACHE_CAP - 1) :
                   g.C.slots[k] = cache_slots[k]
            /\ CacheSeq(g.C, words)
                   = <<w>> \o Without(CacheSeq(Cache, words), w)
            /\ g.ret = g.C.slots[0].files
            /\ g.ret # NULL

\* C16: cache_get of a word that is not cached changes nothing; cache_get
\* of a cached word changes the order only: the same slots with the same
\* pointers, the same count, and the other slots in the order they had.
C16_GetFrame == Loaded => \A w \in QueryWords : GetMissFrame(w) /\ GetHitFrame(w)

\* a full cache that holds neither "z" nor "e", with "b" in its last slot
C16_Witness ==
    /\ pc = "main"
    /\ cache_count = CACHE_CAP
    /\ <<122>> \notin CacheWords(Cache, words)
    /\ <<101>> \notin CacheWords(Cache, words)
    /\ CacheSeq(Cache, words)[CACHE_CAP] = <<98>>
    /\ cache_get(Cache, words, <<98>>).C # Cache

(* -------------------------------- C17 --------------------------------- *)

\* cache_put(e->word, fl) on the cache as it is, for a cached word's entry e
PutCached(e, fl) == cache_put(Cache, words, e, fl)

\* the file lists of the index: what cache_put can be given as files
ListHeads == {words[e].files : e \in 1..Len(words)} \ {NULL}

\* the slots of a cache that hold other words than w
OtherSlots(C, w) == {sl \in Occupied(C) : words[sl.word].word # w}

PutCachedFrame(e, fl) ==
    LET w == words[e].word
        P == PutCached(e, fl)
    IN  /\ P.count = cache_count
        /\ P.slots[0] = [word |-> e, files |-> fl]
        \* the same words, w first and the others in the order they had
        /\ CacheSeq(P, words) = <<w>> \o Without(CacheSeq(Cache, words), w)
        /\ OtherSlots(P, w) = OtherSlots(Cache, w)
        /\ \A k \in cache_count..(CACHE_CAP - 1) : P.slots[k] = cache_slots[k]

\* C17: cache_put of a word that is cached stores the given files pointer in
\* the word's slot and moves the slot to the front; the count, the set of
\* cached words and the order of the other slots stay, and nothing is
\* evicted, also when the cache is full.
C17_PutCached ==
    Loaded => \A k \in 0..(cache_count - 1) : \A fl \in ListHeads :
                  PutCachedFrame(cache_slots[k].word, fl)

\* a full cache whose last slot holds "d"; cache_put gives d's slot another
\* list and brings it to the front
C17_Witness ==
    /\ pc = "main"
    /\ cache_count = CACHE_CAP
    /\ CacheSeq(Cache, words)[CACHE_CAP] = <<100>>
    /\ LET e == Find(Mem, <<100>>)
           P == PutCached(e, 1)
       IN  /\ 1 \in ListHeads
           /\ cache_slots[CACHE_CAP - 1].files # 1
           /\ P.slots[0] = [word |-> e, files |-> 1]
           /\ P.count = CACHE_CAP

(* -------------------------------- C18 --------------------------------- *)

\* the plain map from words to sets of documents that the insert_word calls
\* made so far build
PlainMap(w) == {p[2] : p \in {q \in Range(ins_log) : q[1] = w}}

\* the words asked about: every word of the three texts, and "z"
AllWords == UNION {Range(RefTokens(sample_texts[j])) : j \in 1..NumFiles}
                \cup {<<122>>}

\* the entries of a bucket's chain
RECURSIVE Chain(_)
Chain(p) == IF p = NULL THEN <<>> ELSE <<p>> \o Chain(words[p].next)

\* C18: whatever the table size, 1 included, find_word_entry gives for
\* every word the set of documents a plain map from words to sets holds
\* after the same insert_word calls, and no entry where the map has none.
C18_SizeIndependent ==
    \A w \in AllWords :
        /\ Range(FindFiles(Mem, w)) = PlainMap(w)
        /\ Find(Mem, w) = NULL <=> PlainMap(w) = {}

\* a table of one bucket whose chain holds all six words, and a table of
\* 10007 buckets, answer alike
C18_Witness ==
    /\ Loaded
    /\ hash_size = 1
    /\ Len(Chain(Bucket(hash_table, 0))) = 6
    /\ Range(FindFiles(Mem, <<98>>)) = {"doc1.txt", "doc2.txt", "doc3.txt"}
    /\ Range(FindFiles(Mem, <<97>>)) = {"doc1.txt", "doc3.txt"}

(* -------------------------------- C19 --------------------------------- *)

\* what main makes of the line that holds word w and a newline
Typed(w) == normalize_word_inplace(strip_newline(w \o <<10>>))

\* word w, which index_file took from document d, typed as a query on the
\* cache and index as they are
FoundWhenTyped(w, d) ==
    LET L == lookup_with_cache(Cache, Mem, Typed(w))
    IN  /\ Typed(w) = w
        /\ L.ret # NULL
        /\ d \in Range(FileNames(nodes, L.ret))

C19_EveryTokenFound ==
    Loaded => \A k \in 1..Len(ins_log) : FoundWhenTyped(ins_log[k][1], ins_log[k][2])

\* the queries main answers: the word of a document is answered with a list
\* that names the document
C19_Answered ==
    LookupStep =>
        \A k \in 1..Len(ins_log) :
            ins_log[k][1] = line' =>
                /\ files' # NULL
                /\ ins_log[k][2] \in Range(FileNames(nodes, files'))

\* C19: every word index_file took from a document it could open, typed as
\* a query, is normalized to itself, and lookup_with_cache returns a list
\* that names the document.
C19_RoundTrip == [] C19_EveryTokenFound /\ [][C19_Answered]_vars

\* "c0", a word of doc1.txt, was typed and answered with doc1.txt
C19_Witness ==
    /\ pc = "main"
    /\ input = <<99, 48, 10>>
    /\ line = <<99, 48>>
    /\ <<99, 48>> \in Range(TokensOf("doc1.txt"))
    /\ files # NULL
    /\ FileNames(nodes, files) = <<"doc1.txt">>

(* -------------------------------- C20 --------------------------------- *)

\* two occupied slots hold the same word
Duplicate == Cardinality(CacheWords(Cache, words)) < cache_count

\* a step removes a word from the cache, other than the last slot's when a
\* new word is put into a full cache
SlotLost ==
    LET gone == CacheWords(Cache, words) \ CacheWords(CacheNext, words)
        new  == CacheWords(CacheNext, words) \ CacheWords(Cache, words)
    IN  gone # {} /\ ~ (/\ cache_count = CACHE_CAP
                        /\ new # {}
                        /\ gone = {words[cache_slots[CACHE_CAP - 1].word].word})

\* a thread in cache_get or cache_put holds an idx that is still the slot
\* of its word, or still -1 with its word not cached
IdxFresh(t) ==
    /\ thr[t].pc = "cache_get_move"
       => (thr[t].idx \in 0..(cache_count - 1)
           /\ words[cache_slots[thr[t].idx].word].word = thr[t].word)
    /\ thr[t].pc = "cache_put_store"
       => (thr[t].idx = -1 /\ thr[t].word \notin CacheWords(Cache, words))

C20_LockedState ==
    lock.used => (~ Duplicate /\ \A t \in Threads : IdxFresh(t))

C20_LockedStep == lock.used => ~ SlotLost

\* C20: with one lock held around each lookup (cache_get and cache_put
\* together) the threads never bring the cache to hold a word twice, never
\* act on a stale slot number, and never drop a slot; without the lock, with
\* cache_index_of and the move or insert that follows as separate steps, a
\* cache that holds a word twice is reached (C20_Witness).
C20_LockProtects == [] C20_LockedState /\ [][C20_LockedStep]_vars

\* no lock: both threads missed "b" before either put it, and both put it
C20_Witness ==
    /\ ~ lock.used
    /\ Duplicate
    /\ cache_count = 2
    /\ words[cache_slots[0].word].word = <<98>>
    /\ words[cache_slots[1].word].word = <<98>>

====
